---- MODULE Spec2Model ----
(***************************************************************************)
(* A model of rasteric/kvstore: an sqlite-backed key value store that      *)
(* layers a current value over an optional default per key.                *)
(*                                                                         *)
(* The table kv of the database file is a function from the keys that have *)
(* a row to the row (value, original, info, category).  A NULL blob and a  *)
(* nil byte slice are the empty sequence; a NULL text is the empty         *)
(* sequence and the text s is <<s>>.  Keys are numbered in their sqlite    *)
(* collation order, so that ORDER BY key ASC is the order of the numbers.  *)
(***************************************************************************)
EXTENDS Integers, Sequences, FiniteSets, TLC

VARIABLES
    state,   \* KVStore.state: 0 never opened, 256 open, 2 closed, 3 error
    path,    \* KVStore.path, a sequence of path elements
    sq,      \* KVStore.sq / KVStore.sqx: "nil", "open" or "closed"
    kv,      \* the rows of table kv in the database file
    faulty,  \* the kind of substrate call that may fail, "none" if none does
    pre,     \* the rows of kv before the last call
    last,    \* the last call: its arguments and what it returned
    run      \* the calls that concurrent callers have in flight, step by step

vars == <<state, path, sq, kv, faulty, pre, last, run>>

----------------------------------------------------------------------------
(* Bounds *)

\* The longest slice given to DeleteMany.
MaxLen == 2
\* The largest limit given to GetAll.
MaxLimit == 3

\* The keys "hello" and "test" of the tests, numbered in collation order.
Keys == {1, 2}

----------------------------------------------------------------------------
(* Lifecycle states and errors *)

StUninitialized == 0
StClosed == 2
StError == 3
StOpen == 256
OpenThreshold == 255

NotFoundErr == "key not found"
NotOpenErr == "key value store is closed"
AlreadyOpenErr == "database already open"
NoDefaultErr == "no default value set for given key"
Nil == "nil"
ErrNoRows == "sql: no rows in result set"
ClosedErr == "sql: database is closed"
BusyErr == "database is locked"
StorageErr == "storage failure"
EncodeErr == "gob: type not registered"
DecodeErr == "gob: malformed data"
MkdirErr == "mkdir: permission denied"

----------------------------------------------------------------------------
(* Values and the gob codec *)

\* Go values of type any: a dynamic type and a payload.  The encoding of a
\* value is the id gob gives its type, followed by the payload.
RegisteredTypes == {"int", "string"}
TypeIds == [int |-> 2, string |-> 6]
\* The values of the tests: the int 10 and the string "whatever" (string 1).
Values == {[type |-> "int", v |-> 10], [type |-> "string", v |-> 1]}
NilVal == [type |-> "nil", v |-> 0]
\* A value gob cannot encode (a type that was not registered).
Unencodable == [type |-> "unregistered", v |-> 1]
Inputs == Values \cup {Unencodable}

NULL == <<>>

\* The encoding of a struct value by a process that registered the struct's
\* type with gob.Register; this process has not, and cannot decode it.
StructBytes == <<65, 1>>

MarshalBinary(v) ==
    IF v.type \in RegisteredTypes
    THEN [err |-> Nil, b |-> <<TypeIds[v.type], v.v>>]
    ELSE [err |-> EncodeErr, b |-> NULL]

UnmarshalBinary(b) ==
    IF Len(b) = 2 /\ \E t \in RegisteredTypes : TypeIds[t] = b[1]
    THEN [err |-> Nil,
          v |-> [type |-> CHOOSE t \in RegisteredTypes : TypeIds[t] = b[1],
                 v |-> b[2]]]
    ELSE [err |-> DecodeErr, v |-> NilVal]

----------------------------------------------------------------------------
(* KeyInfo *)

Descriptions == {"a default key"}
Categories == {"tests"}
KeyInfo == [Description : Descriptions, Category : Categories]
NoInfo == [Description |-> "", Category |-> ""]

----------------------------------------------------------------------------
(* The statements the store executes on table kv *)

NewRow == [value |-> NULL, original |-> NULL, info |-> <<>>, category |-> <<>>]

\* Mutant: REPLACE INTO kv(key,value), which writes a whole new row and so
\* drops the default and the info of an existing one.
UpsertValue_Replace(t, k, b) ==
    [x \in DOMAIN t \cup {k} |-> IF x = k THEN [NewRow EXCEPT !.value = b] ELSE t[x]]

\* Mutant: INSERT OR IGNORE, which keeps the value of an existing row.
UpsertValue_InsertOrIgnore(t, k, b) ==
    IF k \in DOMAIN t
    THEN t
    ELSE [x \in DOMAIN t \cup {k} |->
            IF x = k THEN [NewRow EXCEPT !.value = b] ELSE t[x]]

\* INSERT INTO kv(key,value) VALUES(?,?) ON CONFLICT(key) DO UPDATE SET value=?
UpsertValue(t, k, b) ==
    IF k \in DOMAIN t
    THEN [t EXCEPT ![k].value = b]
    ELSE [x \in DOMAIN t \cup {k} |->
            IF x = k THEN [NewRow EXCEPT !.value = b] ELSE t[x]]

\* Mutant: INSERT OR REPLACE, which replaces the whole row and so drops value.
UpsertDefault_InsertOrReplace(t, k, b, info) ==
    [x \in DOMAIN t \cup {k} |->
        IF x = k
        THEN [NewRow EXCEPT !.original = b,
                            !.info = <<info.Description>>,
                            !.category = <<info.Category>>]
        ELSE t[x]]

\* Mutant: ON CONFLICT(key) DO UPDATE SET original=? only, which keeps the
\* info and category of an existing row.
UpsertDefault_KeepsInfo(t, k, b, info) ==
    [x \in DOMAIN t \cup {k} |->
        IF x # k THEN t[x]
        ELSE IF k \in DOMAIN t THEN [t[k] EXCEPT !.original = b]
        ELSE [NewRow EXCEPT !.original = b,
                            !.info = <<info.Description>>,
                            !.category = <<info.Category>>]]

\* INSERT INTO kv(key,original,info,category) VALUES(?,?,?,?)
\*   ON CONFLICT(key) DO UPDATE SET original=?,info=?,category=?
UpsertDefault(t, k, b, info) ==
    LET r == IF k \in DOMAIN t THEN t[k] ELSE NewRow
    IN [x \in DOMAIN t \cup {k} |->
          IF x = k
          THEN [r EXCEPT !.original = b,
                         !.info = <<info.Description>>,
                         !.category = <<info.Category>>]
          ELSE t[x]]

\* SELECT value FROM kv WHERE key=? LIMIT 1, scanned into a byte slice
SelectValue(t, k) ==
    IF k \in DOMAIN t
    THEN [err |-> Nil, b |-> t[k].value]
    ELSE [err |-> ErrNoRows, b |-> NULL]

\* SELECT original FROM kv WHERE key=? LIMIT 1, scanned into a byte slice
SelectOriginal(t, k) ==
    IF k \in DOMAIN t
    THEN [err |-> Nil, b |-> t[k].original]
    ELSE [err |-> ErrNoRows, b |-> NULL]

\* Mutant: an UPDATE whose WHERE clause matches no row.
UpdateValueFromOriginal_NoRows(t, k) == t

\* Mutant: UPDATE kv SET value=NULL WHERE key=?, after which reads fall
\* through to whatever the default is at the time of the read.
UpdateValueFromOriginal_ClearsValue(t, k) ==
    IF k \in DOMAIN t THEN [t EXCEPT ![k].value = NULL] ELSE t

\* UPDATE kv SET value=original WHERE key=?
UpdateValueFromOriginal(t, k) ==
    IF k \in DOMAIN t THEN [t EXCEPT ![k].value = t[k].original] ELSE t

\* Mutant: UPDATE kv SET value=NULL WHERE key=?, which keeps the row.
DeleteRow_ValueOnly(t, k) ==
    IF k \in DOMAIN t THEN [t EXCEPT ![k].value = NULL] ELSE t

\* DELETE FROM kv WHERE key=?
DeleteRow(t, k) == [x \in DOMAIN t \ {k} |-> t[x]]

\* The failure of a read that the substrate fails: no bytes are scanned.
FailedRead == [err |-> StorageErr, b |-> NULL]

----------------------------------------------------------------------------
(* The methods of KVStore.  Each takes the lifecycle state st, the table t  *)
(* and f, the set of the numbers of its substrate calls that fail, and      *)
(* gives what it returns and the table it leaves.                           *)

Fails(f, i) == i \in f

\* Rows of a query in ascending key order: the smallest key first.
RECURSIVE SortedKeys(_)
SortedKeys(S) ==
    IF S = {} THEN <<>>
    ELSE LET m == CHOOSE x \in S : \A y \in S : x <= y
         IN <<m>> \o SortedKeys(S \ {m})

Take(s, n) == IF n < Len(s) THEN SubSeq(s, 1, n) ELSE s

\* Mutant: the query with ORDER BY key DESC, whose limit keeps the largest
\* keys.
SelectAll_Descending(t, limit) ==
    LET s == SortedKeys(DOMAIN t)
        r == [i \in 1..Len(s) |-> s[Len(s) + 1 - i]]
    IN IF limit <= 0 THEN r ELSE Take(r, limit)

\* Mutant: the query with WHERE value IS NOT NULL, which leaves out the rows
\* that have a default only.
SelectAll_ValuesOnly(t, limit) ==
    LET S == {k \in DOMAIN t : t[k].value # NULL}
    IN IF limit <= 0 THEN SortedKeys(S) ELSE Take(SortedKeys(S), limit)

\* SELECT key,value,original FROM kv ORDER BY key ASC [LIMIT ?]
SelectAll(t, limit) ==
    IF limit <= 0 THEN SortedKeys(DOMAIN t) ELSE Take(SortedKeys(DOMAIN t), limit)

getDefault(st, t, key, f) ==
    IF st < StOpen THEN [err |-> NotOpenErr, v |-> NilVal]
    ELSE LET r == IF Fails(f, 2) THEN FailedRead ELSE SelectOriginal(t, key)
         IN IF r.err = ErrNoRows \/ r.b = NULL
            THEN [err |-> NotFoundErr, v |-> NilVal]
            ELSE UnmarshalBinary(r.b)

\* Mutant: Get without the fallback to the default.
Get_NoFallback(st, t, key, f) ==
    IF st < StOpen THEN [err |-> NotOpenErr, v |-> NilVal]
    ELSE LET r == IF Fails(f, 1) THEN FailedRead ELSE SelectValue(t, key)
         IN IF r.err # Nil \/ r.b = NULL
            THEN [err |-> NotFoundErr, v |-> NilVal]
            ELSE UnmarshalBinary(r.b)

Get(st, t, key, f) ==
    IF st < StOpen THEN [err |-> NotOpenErr, v |-> NilVal]
    ELSE LET r == IF Fails(f, 1) THEN FailedRead ELSE SelectValue(t, key)
         IN IF r.err # Nil \/ r.b = NULL
            THEN getDefault(st, t, key, f)
            ELSE UnmarshalBinary(r.b)

\* Mutant: Set without the check of the lifecycle state.
Set_NoStateCheck(st, t, key, value, f) ==
    LET m == MarshalBinary(value)
    IN IF m.err # Nil THEN [err |-> m.err, kv |-> t]
       ELSE IF Fails(f, 1) THEN [err |-> StorageErr, kv |-> t]
       ELSE [err |-> Nil, kv |-> UpsertValue(t, key, m.b)]

Set(st, t, key, value, f) ==
    IF st < StOpen THEN [err |-> NotOpenErr, kv |-> t]
    ELSE LET m == MarshalBinary(value)
         IN IF m.err # Nil THEN [err |-> m.err, kv |-> t]
            ELSE IF Fails(f, 1) THEN [err |-> StorageErr, kv |-> t]
            ELSE [err |-> Nil, kv |-> UpsertValue(t, key, m.b)]

SetDefault(st, t, key, value, info, f) ==
    IF st < StOpen THEN [err |-> NotOpenErr, kv |-> t]
    ELSE LET m == MarshalBinary(value)
         IN IF m.err # Nil THEN [err |-> m.err, kv |-> t]
            ELSE IF Fails(f, 1) THEN [err |-> StorageErr, kv |-> t]
            ELSE [err |-> Nil, kv |-> UpsertDefault(t, key, m.b, info)]

\* Mutant: Revert that looks for the default first and returns NoDefaultErr
\* when there is none, leaving the table.
Revert_ChecksDefault(st, t, key, f) ==
    IF st < StOpen THEN [err |-> NotOpenErr, kv |-> t]
    ELSE IF Fails(f, 1) THEN [err |-> NoDefaultErr, kv |-> t]
    ELSE IF key \notin DOMAIN t \/ t[key].original = NULL
    THEN [err |-> NoDefaultErr, kv |-> t]
    ELSE [err |-> Nil, kv |-> UpdateValueFromOriginal(t, key)]

Revert(st, t, key, f) ==
    IF st < StOpen THEN [err |-> NotOpenErr, kv |-> t]
    ELSE IF Fails(f, 1) THEN [err |-> NoDefaultErr, kv |-> t]
    ELSE [err |-> Nil, kv |-> UpdateValueFromOriginal(t, key)]

Delete(st, t, key, f) ==
    IF st < StOpen THEN [err |-> NotOpenErr, kv |-> t]
    ELSE IF Fails(f, 1) THEN [err |-> StorageErr, kv |-> t]
    ELSE [err |-> Nil, kv |-> DeleteRow(t, key)]

Info(st, t, key, f) ==
    IF st < StOpen THEN [info |-> NoInfo, found |-> FALSE]
    ELSE IF Fails(f, 1) \/ key \notin DOMAIN t THEN [info |-> NoInfo, found |-> FALSE]
    ELSE IF t[key].info = <<>> THEN [info |-> NoInfo, found |-> FALSE]
    ELSE IF t[key].category = <<>>
         THEN [info |-> [NoInfo EXCEPT !.Description = t[key].info[1]], found |-> FALSE]
    ELSE [info |-> [Description |-> t[key].info[1], Category |-> t[key].category[1]],
          found |-> TRUE]

----------------------------------------------------------------------------
(* Transactions.  A transaction works on tx, its own view of the table; the *)
(* file changes on Commit only.  The substrate calls of a batch of n steps  *)
(* are numbered: 1 is Beginx, 1+i the Exec of step i, n+2 the Commit.       *)

\* Mutant: the statements run outside the transaction, so that a rollback
\* leaves what was written.
Rollback_KeepsWrites(t, tx) == tx

\* tx.Rollback(), deferred: the file keeps the table t it had at Beginx.
Rollback(t, tx) == t

\* Mutant: a Commit that is never made, so that the deferred rollback drops
\* what the transaction wrote.
Commit_Forgotten(t, tx) == t

\* tx.Commit(): the file takes the table of the transaction.
Commit(t, tx) == tx

\* The loop of SetMany over the pairs, in the order the map is ranged over.
RECURSIVE SetManyLoop(_, _, _, _, _)
SetManyLoop(tx, pairs, order, i, f) ==
    IF i > Len(order) THEN [err |-> Nil, tx |-> tx, done |-> i - 1]
    ELSE LET k == order[i]
             m == MarshalBinary(pairs[k])
         IN IF m.err # Nil THEN [err |-> m.err, tx |-> tx, done |-> i - 1]
            ELSE IF Fails(f, 1 + i) THEN [err |-> StorageErr, tx |-> tx, done |-> i - 1]
            ELSE SetManyLoop(UpsertValue(tx, k, m.b), pairs, order, i + 1, f)

SetMany(st, t, pairs, order, f) ==
    IF st < StOpen THEN [err |-> NotOpenErr, kv |-> t, done |-> 0]
    ELSE IF Fails(f, 1) THEN [err |-> StorageErr, kv |-> t, done |-> 0]
    ELSE LET r == SetManyLoop(t, pairs, order, 1, f)
         IN IF r.err # Nil
            THEN [err |-> r.err, kv |-> Rollback(t, r.tx), done |-> r.done]
            ELSE IF Fails(f, Len(order) + 2)
            THEN [err |-> StorageErr, kv |-> Rollback(t, r.tx), done |-> r.done]
            ELSE [err |-> Nil, kv |-> Commit(t, r.tx), done |-> r.done]

\* The loop of DeleteMany over the keys of the slice.
RECURSIVE DeleteManyLoop(_, _, _, _)
DeleteManyLoop(tx, keys, i, f) ==
    IF i > Len(keys) THEN [err |-> Nil, tx |-> tx, done |-> i - 1]
    ELSE IF Fails(f, 1 + i) THEN [err |-> StorageErr, tx |-> tx, done |-> i - 1]
    ELSE DeleteManyLoop(DeleteRow(tx, keys[i]), keys, i + 1, f)

\* Mutant: DeleteMany whose statements run on the database instead of the
\* transaction, so that what was deleted before a failure stays deleted.
DeleteMany_NoTx(st, t, keys, f) ==
    IF st < StOpen THEN [err |-> NotOpenErr, kv |-> t, done |-> 0]
    ELSE IF Fails(f, 1) THEN [err |-> StorageErr, kv |-> t, done |-> 0]
    ELSE LET r == DeleteManyLoop(t, keys, 1, f)
         IN IF r.err # Nil
            THEN [err |-> r.err, kv |-> r.tx, done |-> r.done]
            ELSE IF Fails(f, Len(keys) + 2)
            THEN [err |-> StorageErr, kv |-> r.tx, done |-> r.done]
            ELSE [err |-> Nil, kv |-> r.tx, done |-> r.done]

DeleteMany(st, t, keys, f) ==
    IF st < StOpen THEN [err |-> NotOpenErr, kv |-> t, done |-> 0]
    ELSE IF Fails(f, 1) THEN [err |-> StorageErr, kv |-> t, done |-> 0]
    ELSE LET r == DeleteManyLoop(t, keys, 1, f)
         IN IF r.err # Nil
            THEN [err |-> r.err, kv |-> Rollback(t, r.tx), done |-> r.done]
            ELSE IF Fails(f, Len(keys) + 2)
            THEN [err |-> StorageErr, kv |-> Rollback(t, r.tx), done |-> r.done]
            ELSE [err |-> Nil, kv |-> Commit(t, r.tx), done |-> r.done]

----------------------------------------------------------------------------
(* GetAll *)

Put(m, k, v) == [x \in DOMAIN m \cup {k} |-> IF x = k THEN v ELSE m[x]]

\* The loop of GetAll over the scanned rows.  err is the variable err of
\* GetAll, which holds the result of rows.Scan when a row is decoded.
RECURSIVE GetAllLoop(_, _, _, _, _)
GetAllLoop(t, rows, i, result, err) ==
    IF i > Len(rows) THEN [err |-> err, result |-> result]
    ELSE LET key == rows[i]
             value == t[key].value
             original == t[key].original
         IN IF value # NULL
            THEN LET d == UnmarshalBinary(value)
                 IN IF err # Nil
                    THEN GetAllLoop(t, rows, i + 1, result, <<err, d.err>>)
                    ELSE GetAllLoop(t, rows, i + 1, Put(result, key, d.v), err)
            ELSE IF original # NULL
            THEN LET d == UnmarshalBinary(original)
                 IN IF err # Nil
                    THEN GetAllLoop(t, rows, i + 1, result, <<err, d.err>>)
                    ELSE GetAllLoop(t, rows, i + 1, Put(result, key, d.v), err)
            ELSE GetAllLoop(t, rows, i + 1, result, err)

GetAll(st, t, limit, f) ==
    IF st < StOpen THEN [err |-> NotOpenErr, result |-> <<>>]
    ELSE IF Fails(f, 1) THEN [err |-> StorageErr, result |-> <<>>]
    ELSE GetAllLoop(t, SelectAll(t, limit), 1, <<>>, Nil)

----------------------------------------------------------------------------
(* Open and Close *)

\* Paths are sequences of elements; the empty path is the empty string.
EmptyPath == <<>>
DataDir == <<"data">>
PathArgs == {EmptyPath, DataDir}
\* os.Getwd(): the process runs in the data directory.
Getwd == DataDir
DbFile(dir) == dir \o <<"kvstore.sqlite">>

\* Mutant: Open that compares the state with StOpen instead of OpenThreshold,
\* and so opens an open store again.
Open_Reopens(st, p, h, arg, f) ==
    IF st > StOpen
    THEN [err |-> AlreadyOpenErr, state |-> st, path |-> p, sq |-> h]
    ELSE LET dir == IF arg = EmptyPath THEN Getwd ELSE arg
         IN IF Fails(f, 1)
            THEN [err |-> MkdirErr, state |-> st, path |-> dir, sq |-> h]
            ELSE IF Fails(f, 2)
            THEN [err |-> StorageErr, state |-> StError, path |-> DbFile(dir), sq |-> "open"]
            ELSE [err |-> Nil, state |-> StOpen, path |-> DbFile(dir), sq |-> "open"]

\* Open(path): what it returns and the fields of the store it leaves.
\* Substrate call 1 is os.MkdirAll, call 2 the Exec of init.
Open(st, p, h, arg, f) ==
    IF st > OpenThreshold
    THEN [err |-> AlreadyOpenErr, state |-> st, path |-> p, sq |-> h]
    ELSE LET dir == IF arg = EmptyPath THEN Getwd ELSE arg
         IN IF Fails(f, 1)
            THEN [err |-> MkdirErr, state |-> st, path |-> dir, sq |-> h]
            ELSE IF Fails(f, 2)
            THEN [err |-> StorageErr, state |-> StError, path |-> DbFile(dir), sq |-> "open"]
            ELSE [err |-> Nil, state |-> StOpen, path |-> DbFile(dir), sq |-> "open"]

\* Mutant: a schema statement that creates the table anew, without IF NOT
\* EXISTS, after dropping the one there is.
CreateTableIfNotExists_Recreates(t) == <<>>

\* CREATE TABLE IF NOT EXISTS kv(...) of init, on the table of the database
\* file: a table that exists, with its rows, is left as it is, and the table
\* of a new file has no rows.
CreateTableIfNotExists(t) == t

\* Mutant: Close without the check of the lifecycle state, which closes a
\* store that is not open.
Close_NoStateCheck(st, h, f) ==
    IF Fails(f, 1) THEN [err |-> StorageErr, state |-> StError, sq |-> "closed"]
    ELSE [err |-> Nil, state |-> StClosed, sq |-> "closed"]

\* Mutant: Close that closes the handle and stores the state only when the
\* handle fails to close.
Close_KeepsState(st, h, f) ==
    IF st < StOpen THEN [err |-> Nil, state |-> st, sq |-> h]
    ELSE IF Fails(f, 1) THEN [err |-> StorageErr, state |-> StError, sq |-> "closed"]
    ELSE [err |-> Nil, state |-> st, sq |-> "closed"]

\* Close(): substrate call 1 is the Close of the handle.
Close(st, h, f) ==
    IF st < StOpen THEN [err |-> Nil, state |-> st, sq |-> h]
    ELSE IF Fails(f, 1) THEN [err |-> StorageErr, state |-> StError, sq |-> "closed"]
    ELSE [err |-> Nil, state |-> StClosed, sq |-> "closed"]

----------------------------------------------------------------------------
(* The state machine: one action per method of KeyValueStore.  Every call   *)
(* records its arguments, the fields of the store and the table before it,  *)
(* and what it returned; a call of a single statement also records f.       *)

\* The kinds of substrate call: opening and closing the database, the reads
\* of Get, GetAll and Info, the single writes, the calls of a transaction.
FaultKinds == {"lifecycle", "read", "write", "batch"}

\* The failures the substrate may produce in a call with n substrate calls of
\* the given kind: none, or the failure of one of them.
OneFault(kind, n) == IF faulty = kind THEN {{}} \cup {{i} : i \in 1..n} ELSE {{}}
\* Any of the n substrate calls may fail.
AnyFaults(kind, n) == IF faulty = kind THEN SUBSET (1..n) ELSE {{}}

\* The orders in which a map with key set S may be ranged over.
Orders(S) ==
    {o \in [1..Cardinality(S) -> S] : \A i, j \in 1..Cardinality(S) : o[i] = o[j] => i = j}

\* The maps given to SetMany.
PairMaps == UNION {[S -> Inputs] : S \in SUBSET Keys}
\* The slices given to DeleteMany.
KeySlices == UNION {[1..n -> Keys] : n \in 0..MaxLen}
\* The limits given to GetAll.
Limits == -1..MaxLimit

Call(op) ==
    [op |-> op, key |-> 0, val |-> NilVal, info |-> NoInfo, keys |-> <<>>,
     pairs |-> <<>>, limit |-> 0, arg |-> EmptyPath, f |-> {},
     st |-> state, p |-> path, h |-> sq,
     err |-> Nil, ret |-> NilVal, found |-> FALSE, result |-> <<>>, done |-> 0]

\* The goroutines that share the store.
Callers == {1, 2}

\* A caller that has no call in flight and has made none.
IdleCall ==
    [op |-> "idle", pc |-> "done", key |-> 0, val |-> NilVal, pairs |-> <<>>,
     todo |-> <<>>, tx |-> <<>>, intx |-> FALSE, err |-> Nil, ret |-> NilVal,
     with |-> {}, closedUse |-> FALSE]

\* No call in flight, no handle lost, the write lock of the database free.
NoRun == [calls |-> [c \in Callers |-> IdleCall], leaked |-> FALSE, lock |-> 0]

\* The state after New(), on a data directory that holds no database yet.
InitWith(kind) ==
    /\ state = StUninitialized
    /\ path = EmptyPath
    /\ sq = "nil"
    /\ kv = <<>>
    /\ faulty = kind
    /\ pre = <<>>
    /\ last = Call("New")
    /\ run = NoRun

Init == InitWith("none")
InitLifecycleFault == InitWith("lifecycle")
InitReadFault == InitWith("read")
InitWriteFault == InitWith("write")
InitBatchFault == InitWith("batch")

CallOpen ==
    \E arg \in PathArgs, f \in OneFault("lifecycle", 2) :
        LET r == Open(state, path, sq, arg, f)
        IN /\ state' = r.state
           /\ path' = r.path
           /\ sq' = r.sq
           /\ kv' = IF r.err = Nil THEN CreateTableIfNotExists(kv) ELSE kv
           /\ pre' = kv
           /\ last' = [Call("Open") EXCEPT !.arg = arg, !.f = f, !.err = r.err]
           /\ UNCHANGED <<faulty, run>>

CallClose ==
    \E f \in OneFault("lifecycle", 1) :
        LET r == Close(state, sq, f)
        IN /\ state' = r.state
           /\ sq' = r.sq
           /\ pre' = kv
           /\ last' = [Call("Close") EXCEPT !.f = f, !.err = r.err]
           /\ UNCHANGED <<path, kv, faulty, run>>

CallSet ==
    \E key \in Keys, value \in Inputs, f \in OneFault("write", 1) :
        LET r == Set(state, kv, key, value, f)
        IN /\ kv' = r.kv
           /\ pre' = kv
           /\ last' = [Call("Set") EXCEPT !.key = key, !.val = value, !.f = f,
                                          !.err = r.err]
           /\ UNCHANGED <<state, path, sq, faulty, run>>

CallSetDefault ==
    \E key \in Keys, value \in Inputs, info \in KeyInfo, f \in OneFault("write", 1) :
        LET r == SetDefault(state, kv, key, value, info, f)
        IN /\ kv' = r.kv
           /\ pre' = kv
           /\ last' = [Call("SetDefault") EXCEPT !.key = key, !.val = value,
                                                 !.info = info, !.f = f, !.err = r.err]
           /\ UNCHANGED <<state, path, sq, faulty, run>>

CallSetMany ==
    \E pairs \in PairMaps :
        \E order \in Orders(DOMAIN pairs), f \in OneFault("batch", Cardinality(DOMAIN pairs) + 2) :
            LET r == SetMany(state, kv, pairs, order, f)
            IN /\ kv' = r.kv
               /\ pre' = kv
               /\ last' = [Call("SetMany") EXCEPT !.pairs = pairs, !.err = r.err,
                                                  !.done = r.done]
               /\ UNCHANGED <<state, path, sq, faulty, run>>

CallGet ==
    \E key \in Keys, f \in AnyFaults("read", 2) :
        LET r == Get(state, kv, key, f)
        IN /\ pre' = kv
           /\ last' = [Call("Get") EXCEPT !.key = key, !.f = f, !.err = r.err,
                                          !.ret = r.v]
           /\ UNCHANGED <<state, path, sq, kv, faulty, run>>

CallGetAll ==
    \E limit \in Limits, f \in OneFault("read", 1) :
        LET r == GetAll(state, kv, limit, f)
        IN /\ pre' = kv
           /\ last' = [Call("GetAll") EXCEPT !.limit = limit, !.f = f, !.err = r.err,
                                             !.result = r.result]
           /\ UNCHANGED <<state, path, sq, kv, faulty, run>>

CallInfo ==
    \E key \in Keys, f \in OneFault("read", 1) :
        LET r == Info(state, kv, key, f)
        IN /\ pre' = kv
           /\ last' = [Call("Info") EXCEPT !.key = key, !.f = f, !.info = r.info,
                                           !.found = r.found]
           /\ UNCHANGED <<state, path, sq, kv, faulty, run>>

CallRevert ==
    \E key \in Keys, f \in OneFault("write", 1) :
        LET r == Revert(state, kv, key, f)
        IN /\ kv' = r.kv
           /\ pre' = kv
           /\ last' = [Call("Revert") EXCEPT !.key = key, !.f = f, !.err = r.err]
           /\ UNCHANGED <<state, path, sq, faulty, run>>

CallDelete ==
    \E key \in Keys, f \in OneFault("write", 1) :
        LET r == Delete(state, kv, key, f)
        IN /\ kv' = r.kv
           /\ pre' = kv
           /\ last' = [Call("Delete") EXCEPT !.key = key, !.f = f, !.err = r.err]
           /\ UNCHANGED <<state, path, sq, faulty, run>>

CallDeleteMany ==
    \E keys \in KeySlices :
      \E f \in OneFault("batch", Len(keys) + 2) :
        LET r == DeleteMany(state, kv, keys, f)
        IN /\ kv' = r.kv
           /\ pre' = kv
           /\ last' = [Call("DeleteMany") EXCEPT !.keys = keys, !.err = r.err,
                                                 !.done = r.done]
           /\ UNCHANGED <<state, path, sq, faulty, run>>

Next ==
    \/ CallOpen
    \/ CallClose
    \/ CallSet
    \/ CallSetDefault
    \/ CallSetMany
    \/ CallGet
    \/ CallGetAll
    \/ CallInfo
    \/ CallRevert
    \/ CallDelete
    \/ CallDeleteMany

\* The substrate never fails.
Spec == Init /\ [][Next]_vars

\* The substrate may fail when the database is opened or closed.
SpecLifecycleFault == InitLifecycleFault /\ [][Next]_vars

\* The substrate may fail the reads of Get, GetAll and Info.
SpecReadFault == InitReadFault /\ [][Next]_vars

\* The substrate may fail the writes of Set, SetDefault, Revert and Delete.
SpecWriteFault == InitWriteFault /\ [][Next]_vars

\* The substrate may fail the calls of the transactions of SetMany and DeleteMany.
SpecBatchFault == InitBatchFault /\ [][Next]_vars

----------------------------------------------------------------------------
(* A process that drops its store object and makes a new one with New(),    *)
(* over the same data directory and so over the same database file.         *)

CallNew ==
    /\ state' = StUninitialized
    /\ path' = EmptyPath
    /\ sq' = "nil"
    /\ pre' = kv
    /\ last' = Call("New")
    /\ UNCHANGED <<kv, faulty, run>>

NextReopen ==
    \/ Next
    \/ CallNew

SpecReopen == Init /\ [][NextReopen]_vars

----------------------------------------------------------------------------
(* Another process over the same database file, which has registered a      *)
(* struct type with gob and sets a key to a value of that type.             *)

SetByOtherProcess ==
    \E key \in Keys :
        /\ kv' = UpsertValue(kv, key, StructBytes)
        /\ pre' = kv
        /\ last' = [Call("OtherSet") EXCEPT !.key = key]
        /\ UNCHANGED <<state, path, sq, faulty, run>>

NextShared ==
    \/ Next
    \/ SetByOtherProcess

SpecShared == Init /\ [][NextShared]_vars

----------------------------------------------------------------------------
(* Callers that also pass the zero KeyInfo{} to SetDefault.  Its strings are *)
(* empty, and are stored as empty texts, not as NULL.                        *)

CallSetDefaultZeroInfo ==
    \E key \in Keys, value \in Inputs, f \in OneFault("write", 1) :
        LET r == SetDefault(state, kv, key, value, NoInfo, f)
        IN /\ kv' = r.kv
           /\ pre' = kv
           /\ last' = [Call("SetDefault") EXCEPT !.key = key, !.val = value,
                                                 !.info = NoInfo, !.f = f, !.err = r.err]
           /\ UNCHANGED <<state, path, sq, faulty, run>>

NextInfo ==
    \/ Next
    \/ CallSetDefaultZeroInfo

SpecInfo == Init /\ [][NextInfo]_vars

----------------------------------------------------------------------------
(* Concurrent callers.  A method is a sequence of steps, one for each access *)
(* to what the callers share: the atomic state flag, the fields path, sq and *)
(* sqx of the store (plain fields, written by Open without synchronisation), *)
(* the handle and the database file.  The steps of the callers interleave.   *)
(* run.calls[c] is the call of caller c: its method, the step it is at       *)
(* ("done" when it has returned), its arguments and locals, its result, the  *)
(* callers whose calls were in flight while it was, and whether it executed  *)
(* a statement on a closed handle.  run.leaked says that Open replaced a     *)
(* handle that was not closed.                                               *)

InFlight(c) == {d \in Callers \ {c} : run.calls[d].pc # "done"}

\* Caller c enters a method with call record rec.
Start(c, rec) ==
    [d \in Callers |->
        IF d = c THEN [rec EXCEPT !.with = InFlight(c)]
        ELSE IF d \in InFlight(c) THEN [run.calls[d] EXCEPT !.with = @ \cup {c}]
        ELSE run.calls[d]]

\* Caller c goes on in its method, with call record rec.
Step(c, rec) == [run.calls EXCEPT ![c] = rec]

\* What a statement returns that is executed on a handle that is not usable:
\* a closed one, or one on a path that is not a database file.
ExecErr(h) == IF h = "closed" THEN ClosedErr ELSE StorageErr

\* Open, the state check and the assignment of db.path.
OpenCheck ==
    \E c \in Callers, arg \in PathArgs :
        /\ run.calls[c].pc = "done"
        /\ LET pass == ~(state > OpenThreshold)
               rec == [IdleCall EXCEPT !.op = "Open",
                                       !.pc = IF pass THEN "handle" ELSE "done",
                                       !.err = IF pass THEN Nil ELSE AlreadyOpenErr]
           IN /\ run' = [run EXCEPT !.calls = Start(c, rec)]
              /\ path' = IF ~pass THEN path
                         ELSE IF arg = EmptyPath THEN Getwd ELSE arg
        /\ UNCHANGED <<state, sq, kv, faulty, pre, last>>

\* Open, from filepath.Join(db.path, ...) to sqlx.NewDb: the file name is made
\* from db.path as it is now, and the new handle replaces the one in db.sqx.
OpenHandle ==
    \E c \in Callers :
        /\ run.calls[c].pc = "handle"
        /\ path' = DbFile(path)
        /\ sq' = IF path = DataDir THEN "open" ELSE "broken"
        /\ run' = [run EXCEPT !.calls = Step(c, [run.calls[c] EXCEPT !.pc = "init"]),
                              !.leaked = @ \/ sq \in {"open", "broken"}]
        /\ UNCHANGED <<state, kv, faulty, pre, last>>

\* init, the Exec on db.sqx.
OpenInit ==
    \E c \in Callers :
        /\ run.calls[c].pc = "init"
        /\ kv' = IF sq = "open" THEN CreateTableIfNotExists(kv) ELSE kv
        /\ run' = [run EXCEPT !.calls = Step(c,
                       [run.calls[c] EXCEPT !.pc = "store",
                                            !.err = IF sq = "open" THEN Nil ELSE ExecErr(sq),
                                            !.closedUse = (sq = "closed")])]
        /\ UNCHANGED <<state, path, sq, faulty, pre, last>>

\* init, the store of the state.
OpenStore ==
    \E c \in Callers :
        /\ run.calls[c].pc = "store" /\ run.calls[c].op = "Open"
        /\ state' = IF run.calls[c].err = Nil THEN StOpen ELSE StError
        /\ run' = [run EXCEPT !.calls = Step(c, [run.calls[c] EXCEPT !.pc = "done"])]
        /\ UNCHANGED <<path, sq, kv, faulty, pre, last>>

\* Close, the state check.
CloseCheck ==
    \E c \in Callers :
        /\ run.calls[c].pc = "done"
        /\ run' = [run EXCEPT !.calls = Start(c,
                       [IdleCall EXCEPT !.op = "Close",
                                        !.pc = IF state < StOpen THEN "done" ELSE "store"])]
        /\ UNCHANGED <<state, path, sq, kv, faulty, pre, last>>

\* Close, the store of state 2.
CloseStore ==
    \E c \in Callers :
        /\ run.calls[c].pc = "store" /\ run.calls[c].op = "Close"
        /\ state' = StClosed
        /\ run' = [run EXCEPT !.calls = Step(c, [run.calls[c] EXCEPT !.pc = "close"])]
        /\ UNCHANGED <<path, sq, kv, faulty, pre, last>>

\* Close, db.sqx.Close() and the store of state 3 when it fails.
CloseHandle ==
    \E c \in Callers, f \in OneFault("lifecycle", 1) :
        /\ run.calls[c].pc = "close"
        /\ sq' = "closed"
        /\ state' = IF Fails(f, 1) THEN StError ELSE state
        /\ run' = [run EXCEPT !.calls = Step(c,
                       [run.calls[c] EXCEPT !.pc = "done",
                                            !.err = IF Fails(f, 1) THEN StorageErr ELSE Nil])]
        /\ UNCHANGED <<path, kv, faulty, pre, last>>

\* Set, the state check.
SetCheck ==
    \E c \in Callers, key \in Keys, value \in Inputs :
        /\ run.calls[c].pc = "done"
        /\ run' = [run EXCEPT !.calls = Start(c,
                       [IdleCall EXCEPT !.op = "Set", !.key = key, !.val = value,
                                        !.pc = IF state < StOpen THEN "done" ELSE "exec",
                                        !.err = IF state < StOpen THEN NotOpenErr ELSE Nil])]
        /\ UNCHANGED <<state, path, sq, kv, faulty, pre, last>>

\* Set, MarshalBinary and the Exec on db.sqx.
SetExec ==
    \E c \in Callers :
        LET rec == run.calls[c]
            m == MarshalBinary(rec.val)
        IN /\ rec.pc = "exec"
           /\ kv' = IF m.err = Nil /\ sq = "open" THEN UpsertValue(kv, rec.key, m.b) ELSE kv
           /\ run' = [run EXCEPT !.calls = Step(c,
                          [rec EXCEPT !.pc = "done",
                                      !.err = IF m.err # Nil THEN m.err
                                              ELSE IF sq = "open" THEN Nil ELSE ExecErr(sq),
                                      !.closedUse = (m.err = Nil /\ sq = "closed")])]
           /\ UNCHANGED <<state, path, sq, faulty, pre, last>>

\* Get, the state check.
GetCheck ==
    \E c \in Callers, key \in Keys :
        /\ run.calls[c].pc = "done"
        /\ run' = [run EXCEPT !.calls = Start(c,
                       [IdleCall EXCEPT !.op = "Get", !.key = key,
                                        !.pc = IF state < StOpen THEN "done" ELSE "value",
                                        !.err = IF state < StOpen THEN NotOpenErr ELSE Nil])]
        /\ UNCHANGED <<state, path, sq, kv, faulty, pre, last>>

\* Get, the SELECT of the value on db.sqx.
GetValue ==
    \E c \in Callers :
        LET rec == run.calls[c]
            r == IF sq = "open" THEN SelectValue(kv, rec.key) ELSE FailedRead
            d == UnmarshalBinary(r.b)
        IN /\ rec.pc = "value"
           /\ run' = [run EXCEPT !.calls = Step(c,
                          IF r.err # Nil \/ r.b = NULL
                          THEN [rec EXCEPT !.pc = "dcheck", !.closedUse = (sq = "closed")]
                          ELSE [rec EXCEPT !.pc = "done", !.err = d.err, !.ret = d.v])]
           /\ UNCHANGED <<state, path, sq, kv, faulty, pre, last>>

\* getDefault, the state check.
GetDefaultCheck ==
    \E c \in Callers :
        LET rec == run.calls[c]
        IN /\ rec.pc = "dcheck"
           /\ run' = [run EXCEPT !.calls = Step(c,
                          IF state < StOpen
                          THEN [rec EXCEPT !.pc = "done", !.err = NotOpenErr]
                          ELSE [rec EXCEPT !.pc = "dread"])]
           /\ UNCHANGED <<state, path, sq, kv, faulty, pre, last>>

\* getDefault, the SELECT of the default on db.sqx.
GetDefaultRead ==
    \E c \in Callers :
        LET rec == run.calls[c]
            r == IF sq = "open" THEN SelectOriginal(kv, rec.key) ELSE FailedRead
            d == UnmarshalBinary(r.b)
        IN /\ rec.pc = "dread"
           /\ run' = [run EXCEPT !.calls = Step(c,
                          IF r.err = ErrNoRows \/ r.b = NULL
                          THEN [rec EXCEPT !.pc = "done", !.err = NotFoundErr,
                                           !.closedUse = @ \/ sq = "closed"]
                          ELSE [rec EXCEPT !.pc = "done", !.err = d.err, !.ret = d.v])]
           /\ UNCHANGED <<state, path, sq, kv, faulty, pre, last>>

NextRace ==
    \/ OpenCheck
    \/ OpenHandle
    \/ OpenInit
    \/ OpenStore
    \/ CloseCheck
    \/ CloseStore
    \/ CloseHandle
    \/ SetCheck
    \/ SetExec
    \/ GetCheck
    \/ GetValue
    \/ GetDefaultCheck
    \/ GetDefaultRead

\* Two callers that call Open, Close, Set and Get on a store they share.
SpecRace == Init /\ [][NextRace]_vars

----------------------------------------------------------------------------
(* Concurrent batches.  Each transaction of database/sql has a connection   *)
(* of its own.  A transaction begins deferred: it takes the write lock of    *)
(* the database, and sees the committed table, with its first statement, and *)
(* holds the lock until it commits or rolls back.  A statement that finds    *)
(* the lock taken waits for it, and fails when the busy timeout has passed.  *)

\* Mutant: a database without a write lock.
WriteLockFree_NoLock(lock, c) == TRUE

\* The write lock is free for caller c: nobody holds it, or c does.
WriteLockFree(lock, c) == lock \in {0, c}

\* The state after New() and Open(DataDir) on an empty data directory.
InitOpened ==
    /\ state = StOpen
    /\ path = DbFile(DataDir)
    /\ sq = "open"
    /\ kv = CreateTableIfNotExists(<<>>)
    /\ faulty = "none"
    /\ pre = <<>>
    /\ last = [Call("Open") EXCEPT !.arg = DataDir, !.st = StUninitialized,
                                   !.p = EmptyPath, !.h = "nil"]
    /\ run = NoRun

\* SetMany, the state check; the order is the one in which range will give
\* the pairs.
SetManyCheck ==
    \E c \in Callers, pairs \in PairMaps :
        \E order \in Orders(DOMAIN pairs) :
            /\ run.calls[c].pc = "done"
            /\ run' = [run EXCEPT !.calls = Start(c,
                           [IdleCall EXCEPT !.op = "SetMany", !.pairs = pairs, !.todo = order,
                                            !.pc = IF state < StOpen THEN "done" ELSE "begin",
                                            !.err = IF state < StOpen THEN NotOpenErr ELSE Nil])]
            /\ UNCHANGED <<state, path, sq, kv, faulty, pre, last>>

\* SetMany, db.sqx.Beginx().
SetManyBegin ==
    \E c \in Callers :
        LET rec == run.calls[c]
        IN /\ rec.pc = "begin"
           /\ run' = [run EXCEPT !.calls = Step(c,
                          IF sq = "open"
                          THEN [rec EXCEPT !.pc = "loop"]
                          ELSE [rec EXCEPT !.pc = "done", !.err = ExecErr(sq),
                                           !.closedUse = (sq = "closed")])]
           /\ UNCHANGED <<state, path, sq, kv, faulty, pre, last>>

\* SetMany, one turn of the loop: MarshalBinary and tx.Exec, and the deferred
\* Rollback when MarshalBinary fails.
SetManyExec ==
    \E c \in Callers :
        LET rec == run.calls[c]
            k == Head(rec.todo)
            m == MarshalBinary(rec.pairs[k])
            tx == IF rec.intx THEN rec.tx ELSE kv
        IN /\ rec.pc = "loop" /\ rec.todo # <<>>
           /\ m.err # Nil \/ WriteLockFree(run.lock, c)
           /\ kv' = IF m.err # Nil THEN Rollback(kv, tx) ELSE kv
           /\ run' = IF m.err # Nil
                     THEN [run EXCEPT !.calls = Step(c, [rec EXCEPT !.pc = "done", !.err = m.err,
                                                                    !.tx = <<>>, !.intx = FALSE]),
                                      !.lock = IF @ = c THEN 0 ELSE @]
                     ELSE [run EXCEPT !.calls = Step(c, [rec EXCEPT !.todo = Tail(@),
                                                                    !.tx = UpsertValue(tx, k, m.b),
                                                                    !.intx = TRUE]),
                                      !.lock = c]
           /\ UNCHANGED <<state, path, sq, faulty, pre, last>>

\* SetMany, a tx.Exec that waited for the write lock until the busy timeout,
\* and the deferred Rollback.
SetManyBusy ==
    \E c \in Callers :
        LET rec == run.calls[c]
        IN /\ rec.pc = "loop" /\ rec.todo # <<>>
           /\ MarshalBinary(rec.pairs[Head(rec.todo)]).err = Nil
           /\ ~WriteLockFree(run.lock, c)
           /\ kv' = Rollback(kv, rec.tx)
           /\ run' = [run EXCEPT !.calls = Step(c, [rec EXCEPT !.pc = "done", !.err = BusyErr,
                                                               !.tx = <<>>, !.intx = FALSE])]
           /\ UNCHANGED <<state, path, sq, faulty, pre, last>>

\* SetMany, tx.Commit().
SetManyCommit ==
    \E c \in Callers :
        LET rec == run.calls[c]
        IN /\ rec.pc = "loop" /\ rec.todo = <<>>
           /\ kv' = IF rec.intx THEN Commit(kv, rec.tx) ELSE kv
           /\ run' = [run EXCEPT !.calls = Step(c, [rec EXCEPT !.pc = "done", !.err = Nil,
                                                               !.tx = <<>>, !.intx = FALSE]),
                                 !.lock = IF @ = c THEN 0 ELSE @]
           /\ UNCHANGED <<state, path, sq, faulty, pre, last>>

NextBatchRace ==
    \/ SetManyCheck
    \/ SetManyBegin
    \/ SetManyExec
    \/ SetManyBusy
    \/ SetManyCommit

\* Two callers that call SetMany on an open store they share.
SpecBatchRace == InitOpened /\ [][NextBatchRace]_vars

----------------------------------------------------------------------------
(* Properties.  last is the call that led to the state and pre the table    *)
(* before it; the methods applied to the state say what a following call    *)
(* would return.                                                            *)

NoFault == {}
HasRow(t, k) == k \in DOMAIN t
HasValue(t, k) == k \in DOMAIN t /\ t[k].value # NULL
HasDefault(t, k) == k \in DOMAIN t /\ t[k].original # NULL
\* The rows of all keys but k are the same in t and u.
SameButFor(t, u, k) ==
    \A j \in Keys \ {k} : (HasRow(t, j) <=> HasRow(u, j)) /\ (HasRow(t, j) => t[j] = u[j])
\* The call was made on an open store.
OnOpen == last.st = StOpen
DataOps ==
    {"Set", "Get", "SetMany", "GetAll", "Revert", "Delete", "DeleteMany", "SetDefault",
     "Info"}
Min(a, b) == IF a < b THEN a ELSE b

\* C1: on an open store Get(k) returns the value whose encoding is the current
\* value of k if there is one, else the one whose encoding is the default of k
\* if there is one, else fails with NotFoundErr; after a SetDefault(k, d, info)
\* on a key without a current value, Get(k) returns d.
C1_GetLayering ==
    /\ (last.op = "Get" /\ OnOpen) =>
          IF HasValue(pre, last.key)
          THEN last.err = Nil /\ last.ret \in Values
               /\ MarshalBinary(last.ret).b = pre[last.key].value
          ELSE IF HasDefault(pre, last.key)
          THEN last.err = Nil /\ last.ret \in Values
               /\ MarshalBinary(last.ret).b = pre[last.key].original
          ELSE last.err = NotFoundErr /\ last.ret = NilVal
    /\ (last.op = "SetDefault" /\ last.err = Nil /\ ~HasValue(pre, last.key)) =>
          Get(state, kv, last.key, NoFault) = [err |-> Nil, v |-> last.val]

\* C1 witness: a Get that fell back to the default of a key without a value.
C1_Witness ==
    /\ last.op = "Get" /\ OnOpen
    /\ ~HasValue(pre, last.key) /\ HasDefault(pre, last.key)
    /\ last.ret \in Values

\* C2: after a successful Set(k, v), Get(k) returns v, whatever value and type
\* the key had before; a call on another key, or a read, leaves what Get(k)
\* returns unchanged.
C2_SetThenGet ==
    /\ (last.op = "Set" /\ last.err = Nil) =>
          Get(state, kv, last.key, NoFault) = [err |-> Nil, v |-> last.val]
    /\ (last.op \in {"Set", "SetDefault", "Revert", "Delete", "Get", "Info"}) =>
          \A k \in Keys \ {last.key} :
              Get(state, kv, k, NoFault) = Get(last.st, pre, k, NoFault)
    /\ (last.op = "GetAll") =>
          \A k \in Keys : Get(state, kv, k, NoFault) = Get(last.st, pre, k, NoFault)

\* C2 witness: a Set that overwrote a value of another type.
C2_Witness ==
    /\ last.op = "Set" /\ last.err = Nil
    /\ HasValue(pre, last.key)
    /\ pre[last.key].value[1] # TypeIds[last.val.type]

\* C3: a successful SetDefault(k, d, info) sets the default, description and
\* category of k, leaves the current value of k as it was (so that Get(k)
\* still returns a value set before) and leaves the rows of all other keys.
C3_SetDefaultFrame ==
    (last.op = "SetDefault" /\ last.err = Nil) =>
        /\ HasRow(kv, last.key)
        /\ kv[last.key].value = (IF HasRow(pre, last.key) THEN pre[last.key].value ELSE NULL)
        /\ kv[last.key].original = MarshalBinary(last.val).b
        /\ kv[last.key].info = <<last.info.Description>>
        /\ kv[last.key].category = <<last.info.Category>>
        /\ SameButFor(kv, pre, last.key)
        /\ HasValue(pre, last.key) =>
              Get(state, kv, last.key, NoFault) = Get(last.st, pre, last.key, NoFault)

\* C3 witness: a SetDefault on a key that has a value, beside another row.
C3_Witness ==
    /\ last.op = "SetDefault" /\ last.err = Nil
    /\ HasValue(pre, last.key)
    /\ pre[last.key].value # MarshalBinary(last.val).b
    /\ \E j \in Keys \ {last.key} : HasRow(pre, j)

\* C4: on an open store Revert(k) of a key that has a default succeeds; Get(k)
\* then returns the default, whatever the current value was, and the default,
\* description and category of k are those before the call.
C4_RevertToDefault ==
    (last.op = "Revert" /\ OnOpen /\ HasDefault(pre, last.key)) =>
        /\ last.err = Nil
        /\ LET g == Get(state, kv, last.key, NoFault)
           IN g.err = Nil /\ MarshalBinary(g.v).b = pre[last.key].original
        /\ HasRow(kv, last.key)
        /\ kv[last.key].original = pre[last.key].original
        /\ kv[last.key].info = pre[last.key].info
        /\ kv[last.key].category = pre[last.key].category

\* C4 witness: a Revert of a key whose value differed from its default.
C4_Witness ==
    /\ last.op = "Revert" /\ OnOpen
    /\ HasDefault(pre, last.key) /\ HasValue(pre, last.key)
    /\ pre[last.key].value # pre[last.key].original

\* C5: on an open store Revert(k) of a key that has no default (no row, or a
\* row with a current value only) fails with NoDefaultErr.
C5_RevertNoDefaultFails ==
    (last.op = "Revert" /\ OnOpen /\ ~HasDefault(pre, last.key)) =>
        last.err = NoDefaultErr

\* C6: on an open store Delete(k) succeeds and removes the row of k: Get(k)
\* then fails with NotFoundErr, Info(k) finds nothing and a Revert(k) brings
\* no row back; the rows of other keys are unchanged, and a Delete of a key
\* without a row changes nothing.
C6_DeleteRemovesRecord ==
    (last.op = "Delete" /\ OnOpen) =>
        /\ last.err = Nil
        /\ ~HasRow(kv, last.key)
        /\ SameButFor(kv, pre, last.key)
        /\ Get(state, kv, last.key, NoFault) = [err |-> NotFoundErr, v |-> NilVal]
        /\ ~Info(state, kv, last.key, NoFault).found
        /\ LET r == Revert(state, kv, last.key, NoFault)
           IN /\ ~HasRow(r.kv, last.key)
              /\ Get(state, r.kv, last.key, NoFault).err = NotFoundErr
        /\ ~HasRow(pre, last.key) => kv = pre

\* C6 witness: a Delete of a key that had a value and a default, beside
\* another row.
C6_Witness ==
    /\ last.op = "Delete" /\ OnOpen
    /\ HasValue(pre, last.key) /\ HasDefault(pre, last.key)
    /\ \E j \in Keys \ {last.key} : HasRow(pre, j)

\* C7: a SetMany that returns an error leaves the table as it was before the
\* call, in whatever order the pairs were taken and however many were already
\* written; a SetMany that returns nil has written the encoding of every value
\* of the map as the current value of its key.
C7_SetManyAtomic ==
    (last.op = "SetMany") =>
        /\ last.err # Nil => kv = pre
        /\ last.err = Nil =>
              \A k \in DOMAIN last.pairs :
                  HasRow(kv, k) /\ kv[k].value = MarshalBinary(last.pairs[k]).b

\* C7 witness: a SetMany that failed after it had written a pair that changes
\* the table.
C7_Witness ==
    /\ last.op = "SetMany" /\ OnOpen
    /\ last.err # Nil /\ last.done >= 1
    /\ \E k \in DOMAIN last.pairs :
          /\ last.pairs[k] \in Values
          /\ ~(HasRow(pre, k) /\ pre[k].value = MarshalBinary(last.pairs[k]).b)

\* C8: on an open store GetAll(n) with n > 0 returns min(n, number of rows)
\* entries, and GetAll with a limit <= 0 returns an entry for every row.
C8_GetAllCount ==
    (last.op = "GetAll" /\ OnOpen /\ last.err = Nil) =>
        Cardinality(DOMAIN last.result) =
            (IF last.limit > 0
             THEN Min(last.limit, Cardinality(DOMAIN pre))
             ELSE Cardinality(DOMAIN pre))

\* C9: a call of Set, Get, SetMany, GetAll, Revert, Delete, DeleteMany or
\* SetDefault on a store that is not open returns NotOpenErr, Info finds
\* nothing, and the table and the fields of the store are left as they were.
C9_NotOpenRejected ==
    (last.op \in DataOps /\ last.st # StOpen) =>
        /\ last.op # "Info" => last.err = NotOpenErr
        /\ last.op = "Info" => ~last.found
        /\ last.op = "Get" => last.ret = NilVal
        /\ last.op = "GetAll" => last.result = <<>>
        /\ kv = pre
        /\ state = last.st /\ path = last.p /\ sq = last.h

\* C9 witness: a SetDefault on a store in the error state whose table has rows.
C9_Witness ==
    /\ last.op = "SetDefault" /\ last.st = StError
    /\ last.val \in Values
    /\ DOMAIN pre # {}

\* C10: Open on an open store fails with AlreadyOpenErr and leaves the state
\* open, the path, the handle and the table as they were.
C10_OpenTwiceRejected ==
    (last.op = "Open" /\ OnOpen) =>
        /\ last.err = AlreadyOpenErr
        /\ state = StOpen /\ path = last.p /\ sq = last.h
        /\ kv = pre
        /\ \A k \in Keys : Get(state, kv, k, NoFault) = Get(last.st, pre, k, NoFault)

\* C10 witness: an Open on an open store whose table has a value.
C10_Witness ==
    /\ last.op = "Open" /\ OnOpen
    /\ \E k \in Keys : HasValue(pre, k)

\* C11: Close on an open store whose handle closes moves the store to the
\* closed state; Close on a store that is not open returns nil and leaves the
\* state, the handle, the path and the table; a Close after a Close changes
\* nothing more.
C11_CloseIdempotent ==
    (last.op = "Close") =>
        /\ (OnOpen /\ last.f = NoFault) =>
              last.err = Nil /\ state = StClosed /\ sq = "closed"
        /\ ~OnOpen =>
              /\ last.err = Nil
              /\ state = last.st /\ sq = last.h /\ path = last.p
        /\ kv = pre
        /\ Close(state, sq, NoFault) = [err |-> Nil, state |-> state, sq |-> sq]

\* C11 witness: a Close of a store that an earlier Close had closed.
C11_Witness ==
    /\ last.op = "Close" /\ last.st = StClosed /\ last.h = "closed"
    /\ state = StClosed

Listed(keys) == {keys[i] : i \in 1..Len(keys)}

\* C12: on an open store a DeleteMany that returns nil has removed the row of
\* every listed key (Get of each fails with NotFoundErr) and left the rows of
\* the keys not listed; a DeleteMany that returns an error has left the whole
\* table; with a substrate that does not fail, DeleteMany returns nil also
\* for keys without a row and keys listed twice.
C12_DeleteManyAtomic ==
    (last.op = "DeleteMany" /\ OnOpen) =>
        /\ last.err = Nil =>
              /\ \A k \in Listed(last.keys) :
                    /\ ~HasRow(kv, k)
                    /\ Get(state, kv, k, NoFault) = [err |-> NotFoundErr, v |-> NilVal]
              /\ \A k \in Keys \ Listed(last.keys) :
                    (HasRow(kv, k) <=> HasRow(pre, k)) /\ (HasRow(kv, k) => kv[k] = pre[k])
        /\ last.err # Nil => kv = pre
        /\ DeleteMany(last.st, pre, last.keys, NoFault).err = Nil

\* C12 witness: a DeleteMany that failed after it had deleted a row.
C12_Witness ==
    /\ last.op = "DeleteMany" /\ OnOpen
    /\ last.err # Nil /\ last.done >= 1
    /\ HasRow(pre, last.keys[1])

\* C12 witness of the other case: a DeleteMany that returned nil for a key
\* listed twice and a key without a row.
C12_WitnessNil ==
    /\ last.op = "DeleteMany" /\ OnOpen /\ last.err = Nil
    /\ Len(last.keys) = 2
    /\ last.keys[1] = last.keys[2] \/ ~HasRow(pre, last.keys[2])
    /\ HasRow(pre, last.keys[1])

\* C13: on an open store Info(k) finds the description and category that the
\* last successful SetDefault on k stored since the row of k was created or
\* last deleted, and finds nothing without one: a successful SetDefault(k, _,
\* info) makes Info(k) return info; a Delete or DeleteMany of k makes it find
\* nothing; every other call (Set, SetMany, Revert, the reads, a failed call,
\* a call on another key) leaves what Info(k) returns; a key without a row has
\* no info.
C13_InfoTracksSetDefault ==
    /\ (last.op = "Info" /\ OnOpen) =>
          Info(last.st, pre, last.key, NoFault) = [info |-> last.info, found |-> last.found]
    /\ (last.op = "SetDefault" /\ last.err = Nil) =>
          Info(state, kv, last.key, NoFault) = [info |-> last.info, found |-> TRUE]
    /\ (last.op = "Delete" /\ last.err = Nil) =>
          ~Info(state, kv, last.key, NoFault).found
    /\ (last.op = "DeleteMany" /\ last.err = Nil) =>
          \A k \in Listed(last.keys) : ~Info(state, kv, k, NoFault).found
    /\ \A k \in Keys :
          \/ last.op \in {"SetDefault", "Delete"} /\ last.err = Nil /\ k = last.key
          \/ last.op = "DeleteMany" /\ last.err = Nil /\ k \in Listed(last.keys)
          \/ last.op \in {"New", "Open", "Close"}
          \/ Info(state, kv, k, NoFault) = Info(last.st, pre, k, NoFault)
    /\ \A k \in Keys : ~HasRow(kv, k) => ~Info(StOpen, kv, k, NoFault).found
    /\ (last.op \in {"Set", "SetMany"} /\ last.err = Nil) =>
          \A k \in Keys : (~HasRow(pre, k) /\ HasRow(kv, k)) =>
              ~Info(state, kv, k, NoFault).found

\* C13 witness: a SetDefault that replaced another description of a key that
\* has a value, after which Info returns the new one.
C13_Witness ==
    /\ last.op = "SetDefault" /\ last.err = Nil
    /\ HasValue(pre, last.key)
    /\ pre[last.key].info # <<>>
    /\ pre[last.key].info # <<last.info.Description>>
    /\ Info(state, kv, last.key, NoFault).info = last.info

\* C14: records survive a close and reopen: Close, New and Open leave every
\* row of the table as it was, whether the same store object opens again or a
\* new one does; after a successful Open the state is open again and every
\* key reads, and has the info, it had before.
C14_ReopenKeepsRecords ==
    (last.op \in {"Open", "Close", "New"}) =>
        /\ kv = pre
        /\ (last.op = "Open" /\ last.err = Nil) =>
              /\ state = StOpen
              /\ sq = "open"
              /\ \A k \in Keys :
                    /\ Get(state, kv, k, NoFault) = Get(StOpen, pre, k, NoFault)
                    /\ Info(state, kv, k, NoFault) = Info(StOpen, pre, k, NoFault)

\* C14 witness: the store object that was closed opens again over a table in
\* which a key has a value, a default and its info.
C14_Witness ==
    /\ last.op = "Open" /\ last.err = Nil /\ last.st = StClosed
    /\ \E k \in Keys :
          /\ HasValue(kv, k) /\ HasDefault(kv, k)
          /\ kv[k].value # kv[k].original
          /\ Info(state, kv, k, NoFault).found

\* C14, the other case: a new store object opens over such a table.
C14_WitnessNew ==
    /\ last.op = "Open" /\ last.err = Nil /\ last.st = StUninitialized
    /\ \E k \in Keys : HasValue(kv, k) /\ HasDefault(kv, k)

\* GetAll's result m and the Gets of every key on table t agree: m has a key
\* exactly when Get of it succeeds, and maps it to the value Get returns.
AgreesWithGet(m, t) ==
    \A k \in Keys :
        LET g == Get(StOpen, t, k, NoFault)
        IN /\ (k \in DOMAIN m) <=> (g.err = Nil)
           /\ (k \in DOMAIN m) => m[k] = g.v

\* C15: on an open store GetAll(0), and GetAll of a negative limit, agree with
\* Get on every key, in every state the store reaches and in every call of
\* GetAll made; after a successful SetMany(pairs), GetAll(0) maps every key of
\* pairs to its value in pairs.
C15_GetAllAgreesWithGet ==
    /\ (state = StOpen) =>
          LET r == GetAll(state, kv, 0, NoFault)
          IN r.err = Nil /\ AgreesWithGet(r.result, kv)
    /\ (last.op = "GetAll" /\ OnOpen /\ last.limit <= 0) =>
          last.err = Nil /\ AgreesWithGet(last.result, pre)
    /\ (last.op = "SetMany" /\ OnOpen /\ last.err = Nil) =>
          LET r == GetAll(state, kv, 0, NoFault)
          IN \A k \in DOMAIN last.pairs :
                k \in DOMAIN r.result /\ r.result[k] = last.pairs[k]

\* C15 witness: a GetAll(0) call that returned a current value for one key and
\* the default for another, the second having no current value.
C15_Witness ==
    /\ last.op = "GetAll" /\ OnOpen /\ last.limit = 0
    /\ \E j, k \in DOMAIN last.result :
          /\ j # k
          /\ HasValue(pre, j) /\ HasDefault(pre, j) /\ pre[j].value # pre[j].original
          /\ ~HasValue(pre, k) /\ HasDefault(pre, k)

\* C15, after SetMany: a successful SetMany of two pairs over a key that had
\* another value.
C15_WitnessSetMany ==
    /\ last.op = "SetMany" /\ OnOpen /\ last.err = Nil
    /\ Cardinality(DOMAIN last.pairs) = 2
    /\ \E k \in DOMAIN last.pairs :
          HasValue(pre, k) /\ pre[k].value # MarshalBinary(last.pairs[k]).b

\* C16: the Error state is absorbing: a call made on a store in the Error
\* state, Open and Close included, leaves the store in the Error state.
C16_ErrorAbsorbing ==
    (last.op # "New" /\ last.st = StError) => state = StError

\* Row k of table u is row k of table t but for its value, which is b; a row
\* that t does not have is new in u, with no default and no info.
OnlyValueSet(t, u, k, b) ==
    /\ HasRow(u, k)
    /\ u[k] = [(IF HasRow(t, k) THEN t[k] ELSE NewRow) EXCEPT !.value = b]

\* C17: a successful Set(k, v) changes the current value of k only: the
\* default, the description and the category of k are as before, a new row
\* has none, and the rows of all other keys are as before; a Set that fails
\* changes nothing.  The same holds for every pair of a successful SetMany,
\* whose other keys keep their rows.
C17_SetFrame ==
    /\ (last.op = "Set" /\ OnOpen /\ last.err = Nil) =>
          /\ OnlyValueSet(pre, kv, last.key, MarshalBinary(last.val).b)
          /\ SameButFor(pre, kv, last.key)
    /\ (last.op = "Set" /\ last.err # Nil) => kv = pre
    /\ (last.op = "SetMany" /\ OnOpen /\ last.err = Nil) =>
          /\ \A k \in DOMAIN last.pairs :
                OnlyValueSet(pre, kv, k, MarshalBinary(last.pairs[k]).b)
          /\ \A k \in Keys \ DOMAIN last.pairs :
                (HasRow(kv, k) <=> HasRow(pre, k)) /\ (HasRow(kv, k) => kv[k] = pre[k])

\* C17 witness: a Set that changed the value of a key with a default and info,
\* next to another key that has a row.
C17_Witness ==
    /\ last.op = "Set" /\ OnOpen /\ last.err = Nil
    /\ HasDefault(pre, last.key) /\ pre[last.key].info # <<>>
    /\ pre[last.key].value # kv[last.key].value
    /\ \E k \in Keys \ {last.key} : HasRow(pre, k)

\* C17, the batch: a successful SetMany over a key with a default and info,
\* with a key outside pairs that has a row.
C17_WitnessSetMany ==
    /\ last.op = "SetMany" /\ OnOpen /\ last.err = Nil
    /\ \E k \in DOMAIN last.pairs : HasDefault(pre, k) /\ pre[k].info # <<>>
    /\ \E k \in Keys \ DOMAIN last.pairs : HasRow(pre, k)

\* The bytes GetAll decodes for row k of table t: the value, or the default
\* when the value is NULL.
ScannedBytes(t, k) == IF t[k].value # NULL THEN t[k].value ELSE t[k].original

\* C18: GetAll is best effort on rows that do not decode: when the bytes of a
\* scanned row fail to decode, GetAll returns an error and no entry for that
\* key; every scanned row that decodes has its entry in the result.
C18_GetAllBestEffort ==
    (last.op = "GetAll" /\ OnOpen) =>
        \A i \in 1..Len(SelectAll(pre, last.limit)) :
            LET k == SelectAll(pre, last.limit)[i]
                b == ScannedBytes(pre, k)
            IN /\ (b # NULL /\ UnmarshalBinary(b).err # Nil) =>
                     last.err # Nil /\ k \notin DOMAIN last.result
               /\ (b # NULL /\ UnmarshalBinary(b).err = Nil) =>
                     k \in DOMAIN last.result /\ last.result[k] = UnmarshalBinary(b).v

\* C19: Get returns NotFoundErr only for a key that has neither a current
\* value nor a default; when a read of the substrate fails on an open store,
\* Get of a key that has one of them returns the failure of the substrate.
C19_GetNotFoundOnlyWhenAbsent ==
    (last.op = "Get" /\ OnOpen) =>
        /\ last.err = NotFoundErr =>
              ~HasValue(pre, last.key) /\ ~HasDefault(pre, last.key)
        /\ (last.f # NoFault /\ last.err # Nil
              /\ (HasValue(pre, last.key) \/ HasDefault(pre, last.key))) =>
              last.err = StorageErr

\* The table after Set(k, pairs[k]) is called for the keys of order from the
\* i-th on, one call after the other, on an open store with table t.
RECURSIVE SetEach(_, _, _, _)
SetEach(t, pairs, order, i) ==
    IF i > Len(order) THEN t
    ELSE SetEach(Set(StOpen, t, order[i], pairs[order[i]], NoFault).kv, pairs, order, i + 1)

\* C20: a successful SetMany(pairs) leaves the table that calling Set once for
\* each pair leaves, in whichever order the pairs are taken, and like Set it
\* leaves the state, the path and the handle of the store.
C20_SetManyAsSets ==
    (last.op = "SetMany" /\ OnOpen /\ last.err = Nil) =>
        /\ \A order \in Orders(DOMAIN last.pairs) :
              kv = SetEach(pre, last.pairs, order, 1)
        /\ state = last.st /\ path = last.p /\ sq = last.h

\* C20 witness: a successful SetMany of two pairs with different values, over
\* a table in which one of the keys has a row with a default and the other
\* has no row.
C20_Witness ==
    /\ last.op = "SetMany" /\ OnOpen /\ last.err = Nil
    /\ Cardinality(DOMAIN last.pairs) = 2
    /\ \E j, k \in DOMAIN last.pairs :
          /\ last.pairs[j] # last.pairs[k]
          /\ HasDefault(pre, j)
          /\ ~HasRow(pre, k)

\* C21: GetAll with a positive limit n scans the rows in ascending key order:
\* every key of its result is among the n smallest keys of the table, every
\* one of the n smallest keys that has a value or a default is in the result,
\* and the same call made again, with no write in between, returns the same
\* map.
C21_GetAllLimitOrder ==
    (last.op = "GetAll" /\ OnOpen /\ last.limit > 0) =>
        /\ \A k \in DOMAIN last.result :
              /\ HasRow(pre, k)
              /\ Cardinality({j \in DOMAIN pre : j < k}) < last.limit
        /\ \A k \in DOMAIN pre :
              (/\ Cardinality({j \in DOMAIN pre : j < k}) < last.limit
               /\ (HasValue(pre, k) \/ HasDefault(pre, k))) =>
                  k \in DOMAIN last.result
        /\ kv = pre
        /\ GetAll(state, kv, last.limit, NoFault) = [err |-> last.err, result |-> last.result]

\* C21 witness: GetAll(1) on a table of two rows with values, which returned
\* the smaller key only.
C21_Witness ==
    /\ last.op = "GetAll" /\ OnOpen /\ last.limit = 1
    /\ \A k \in Keys : HasValue(pre, k)
    /\ DOMAIN last.result = {CHOOSE k \in Keys : \A j \in Keys : k <= j}

C24_WitnessNoRow ==
    /\ last.op = "Revert" /\ OnOpen /\ last.err = Nil
    /\ ~HasRow(pre, last.key) /\ ~HasRow(kv, last.key)
    /\ pre # <<>>

\* The last call was a successful call that writes the value of key k: a Set
\* or a Revert or a Delete of k, a SetMany with k among its pairs, or a
\* DeleteMany with k in its slice.
WroteValue(k) ==
    /\ last.err = Nil
    /\ \/ last.op \in {"Set", "Revert", "Delete"} /\ last.key = k
       \/ last.op = "SetMany" /\ k \in DOMAIN last.pairs
       \/ last.op = "DeleteMany" /\ k \in Listed(last.keys)

\* C25: Revert stores a copy of the default as the current value: after a
\* Revert of a key with a default the value holds the bytes of the default
\* and Get returns the default; a later SetDefault of the key, with whatever
\* default, leaves the value and what Get returns; and so does every call
\* that is not a Set, Revert or Delete of the key (or a batch with it).
C25_RevertCopiesDefault ==
    /\ (last.op = "Revert" /\ OnOpen /\ last.err = Nil /\ HasDefault(pre, last.key)) =>
          /\ kv[last.key].value = pre[last.key].original
          /\ Get(state, kv, last.key, NoFault) = UnmarshalBinary(pre[last.key].original)
    /\ (last.op = "SetDefault" /\ OnOpen /\ HasValue(pre, last.key)) =>
          /\ kv[last.key].value = pre[last.key].value
          /\ Get(state, kv, last.key, NoFault) = Get(last.st, pre, last.key, NoFault)
    /\ \A k \in Keys :
          (HasValue(pre, k) /\ ~WroteValue(k)) =>
              /\ HasValue(kv, k)
              /\ kv[k].value = pre[k].value
              /\ Get(StOpen, kv, k, NoFault) = Get(StOpen, pre, k, NoFault)

\* C25 witness: a SetDefault with another default on a key whose value is the
\* copy of the default it had; Get still returns the first default.
C25_Witness ==
    /\ last.op = "SetDefault" /\ OnOpen /\ last.err = Nil
    /\ HasValue(pre, last.key) /\ HasDefault(pre, last.key)
    /\ pre[last.key].value = pre[last.key].original
    /\ kv[last.key].original # pre[last.key].original
    /\ Get(state, kv, last.key, NoFault) = UnmarshalBinary(pre[last.key].original)

\* C27: in every state that sequential calls reach, the lifecycle flag is one
\* of 0, 2, 3 and 256; whenever it is 256 the handle of the store is open; and
\* every data operation that passed the state check ran with an open handle.
C27_StateAndHandle ==
    /\ state \in {StUninitialized, StClosed, StError, StOpen}
    /\ state = StOpen => sq = "open"
    /\ state = StUninitialized => sq = "nil"
    /\ state = StClosed => sq = "closed"
    /\ (last.op \in DataOps \ {"Info"} /\ last.err # NotOpenErr) =>
          last.st = StOpen /\ last.h = "open"
    /\ (last.op = "Info" /\ last.found) => last.st = StOpen /\ last.h = "open"

\* C27 witness: a data operation that passed the state check and succeeded on
\* an open store whose table has rows.
C27_Witness ==
    /\ last.op \in DataOps \ {"Info"} /\ last.err = Nil
    /\ state = StOpen /\ sq = "open"
    /\ pre # <<>>

\* C27, the flag after a failure: a store in the error state is opened again.
C27_WitnessReopen ==
    /\ last.op = "Open" /\ last.st = StError /\ last.h = "closed"
    /\ state = StOpen /\ sq = "open"

\* C22: a data operation that runs while another caller runs Close takes
\* effect on the open store or fails with NotOpenErr: it never passes the
\* state check and then executes its statement on a handle that Close has
\* closed.
C22_NoUseAfterClose ==
    \A c \in Callers :
        (run.calls[c].op \in DataOps) =>
            /\ ~run.calls[c].closedUse
            /\ run.calls[c].err # ClosedErr

\* C23: of two calls of Open that run concurrently on a store that is not
\* open, at most one returns nil and the other returns AlreadyOpenErr, and no
\* handle is opened over one the store holds open.
C23_OneOpenWins ==
    \A c, d \in Callers :
        (/\ c # d
         /\ run.calls[c].op = "Open" /\ run.calls[d].op = "Open"
         /\ d \in run.calls[c].with /\ c \in run.calls[d].with
         /\ run.calls[c].pc = "done" /\ run.calls[d].pc = "done"
         /\ run.calls[c].err = Nil) =>
            /\ run.calls[d].err = AlreadyOpenErr
            /\ ~run.leaked

\* Caller c commits in this step.
Commits(c) ==
    /\ run.calls[c].op = "SetMany" /\ run.calls[c].pc = "loop"
    /\ run'.calls[c].pc = "done" /\ run'.calls[c].err = Nil

\* The calls of callers c and d overlapped, and both have returned nil.
BothCommitted(c, d) ==
    /\ c # d
    /\ run.calls[c].op = "SetMany" /\ run.calls[d].op = "SetMany"
    /\ d \in run.calls[c].with /\ c \in run.calls[d].with
    /\ run.calls[c].pc = "done" /\ run.calls[d].pc = "done"
    /\ run.calls[c].err = Nil /\ run.calls[d].err = Nil

\* What a step does to the table: the step in which a call commits changes
\* it as the Sets of all the pairs of the call do; the step in which a call
\* fails leaves it; and it changes in no step but a commit.
BatchStep ==
    /\ \A c \in Callers :
          (/\ Commits(c) =>
                 kv' = SetEach(kv, run.calls[c].pairs,
                               SortedKeys(DOMAIN run.calls[c].pairs), 1)
           /\ (run.calls[c].pc # "done" /\ run'.calls[c].pc = "done"
                 /\ run'.calls[c].err # Nil) => kv' = kv)
    /\ (kv' # kv) => (\E w \in Callers : Commits(w))

\* When two overlapping calls have both returned nil, the keys they share
\* all have the values of one of the two batches.
SameBatchWins ==
    \A c, d \in Callers :
        BothCommitted(c, d) =>
            \E w \in {c, d} :
                \A k \in DOMAIN run.calls[c].pairs \cap DOMAIN run.calls[d].pairs :
                    /\ HasRow(kv, k)
                    /\ kv[k].value = MarshalBinary(run.calls[w].pairs[k]).b

\* C26: concurrent SetMany calls serialise: the step in which a call commits
\* changes the table as the Sets of all its pairs do, on the table as it is
\* then; a call that fails leaves the table; no other step changes the table;
\* and when two overlapping calls have both returned nil, the values of all
\* the keys they share are those of one and the same batch.
C26_BatchesSerialise ==
    /\ [][BatchStep]_vars
    /\ []SameBatchWins

\* C26 witness: two overlapping SetMany calls on the same two keys, with other
\* values for both keys, have both returned nil.
C26_Witness ==
    \E c, d \in Callers :
        /\ BothCommitted(c, d)
        /\ DOMAIN run.calls[c].pairs = Keys /\ DOMAIN run.calls[d].pairs = Keys
        /\ \A k \in Keys : run.calls[c].pairs[k] # run.calls[d].pairs[k]

\* C26, the failing call: a call that had written in its transaction and then
\* failed, while the other caller's call was in flight.
C26_WitnessFailed ==
    \E c \in Callers :
        /\ run.calls[c].op = "SetMany" /\ run.calls[c].pc = "done"
        /\ run.calls[c].err \in {EncodeErr, BusyErr}
        /\ run.calls[c].with # {}
        /\ Len(run.calls[c].todo) < Cardinality(DOMAIN run.calls[c].pairs)

====
